---- MODULE Spec2Model ----
(***************************************************************************)
(* Model of the Zabbix traffic-report scripts                              *)
(*   src/3-coleta-cabral.py          (explicit-key strategy,  "cabral")    *)
(*   src/zabbix-send-received-95.py  (label-pattern strategy, "sr95")      *)
(* Numbers that are Python floats in the scripts are modelled as exact     *)
(* rationals <<numerator, denominator>> with a positive denominator.       *)
(***************************************************************************)
EXTENDS Integers, Sequences, FiniteSets, TLC

VARIABLES
    script,     \* which script runs: "cabral" or "sr95"
    mode,       \* ULTIMOS_30_DIAS
    now,        \* datetime.now(timezone.utc), fixed at Init
    window,     \* <<time_from, time_till>>, <<>> before it is computed
    pc,         \* position of main()
    hostIdx,    \* index in the host list of the host being processed
    lst,        \* sr95: items_in, and the dicts and match_map of the host
    keys,       \* meta_list / key_to_meta of the host, in insertion order
    found,      \* keys of the items the key-resolving item.get returned
    pos,        \* position of the aggregation loop in keys
    by_if,      \* by_if of the host
    trendRet,   \* history: what trend.get returned, per key fetched
    calls,      \* history: the API calls issued for the host, in order
    out,        \* history: what was printed for the host, in order
    visited,    \* history: hosts for which an API call was issued
    failures,   \* history: hosts on which an API call failed
    status,     \* how the processing of the host handled last ended
    fin,        \* argument of the helper under check (helper specifications)
    fout        \* its result

cfgVars == <<script, mode, now>>
hostVars == <<hostIdx, lst, keys, found, pos, by_if, trendRet, calls, out, visited, failures, status>>
vars == <<script, mode, now, window, pc, hostIdx, lst, keys, found, pos, by_if, trendRet,
          calls, out, visited, failures, status, fin, fout>>

None == "None"

\* ------------------------------------------------------------------ bounds

\* calendar years of `now` explored: 2000 .. 2000 + YearSpan
YearSpan == 101

\* longest list handed to percentile in the helper specification
MaxLen == 4

\* longest trend.get reply in the trend helper specification
MaxBuckets == 3

\* most base-1000 digits of a rate handed to format_bps in its helper
\* specification (rates below 1000^MaxGroups)
MaxGroups == 5

\* most items in one item.get listing reply in the listing helper specification
MaxItems == 2

\* interfaces configured per host in HOSTS_IFINDEX (the script lists 3)
IfacesPerHost == 2

\* most tags on one item in the label matching helper specification
MaxTags == 2

\* ------------------------------------------------------------- rationals

SeqsUpTo(S, n) == UNION { [1 .. k -> S] : k \in 0 .. n }

Rat(n, d) == <<n, d>>
RatEq(a, b) == a[1] * b[2] = b[1] * a[2]
RatLe(a, b) == a[1] * b[2] <= b[1] * a[2]
RatLt(a, b) == a[1] * b[2] < b[1] * a[2]

\* Python dicts as functions: d[k] = v and d.setdefault(k, v)
DictSet(d, k, v) == [x \in (DOMAIN d) \cup {k} |-> IF x = k THEN v ELSE d[x]]
SetDefault(d, k, v) == IF k \in DOMAIN d THEN d ELSE DictSet(d, k, v)
EmptyDict == <<>>

\* the per-host state before the first host
HostIdle ==
    /\ hostIdx = 1
    /\ lst = EmptyDict
    /\ keys = <<>>
    /\ found = {}
    /\ pos = 1
    /\ by_if = EmptyDict
    /\ trendRet = EmptyDict
    /\ calls = <<>>
    /\ out = <<>>
    /\ visited = {}
    /\ failures = {}
    /\ status = "idle"

\* ------------------------------------------------------------------ time

IsLeap(y) == (y % 4 = 0) /\ ((y % 100 # 0) \/ (y % 400 = 0))

\* calendar.monthrange(ano, mes)[1]
MonthRange(y, m) ==
    IF m = 2 THEN (IF IsLeap(y) THEN 29 ELSE 28)
    ELSE IF m \in {4, 6, 9, 11} THEN 30 ELSE 31

\* days before January 1st of year y, counted from 0001-01-01
DaysBeforeYear(y) ==
    LET p == y - 1 IN p * 365 + (p \div 4) - (p \div 100) + (p \div 400)

RECURSIVE DaysBeforeMonth(_, _)
DaysBeforeMonth(y, m) ==
    IF m = 1 THEN 0 ELSE DaysBeforeMonth(y, m - 1) + MonthRange(y, m - 1)

\* proleptic Gregorian ordinal of a date (0001-01-01 is day 1)
ToOrdinal(y, m, d) == DaysBeforeYear(y) + DaysBeforeMonth(y, m) + d

DateTime(y, m, d, s, u) == [year |-> y, month |-> m, day |-> d, sod |-> s, us |-> u]

\* datetime.timestamp() of an aware UTC datetime, counted from
\* 1970-01-01T00:00:00Z.  An epoch second t is kept as day * 86400 + sod in
\* two digits (day, sod), 0 <= sod < 86400, so that instants after 2038 stay
\* inside the model checker's integers; us is the microsecond part.
Timestamp(dt) ==
    [day |-> ToOrdinal(dt.year, dt.month, dt.day) - ToOrdinal(1970, 1, 1),
     sod |-> dt.sod,
     us  |-> dt.us]

\* t + k seconds, for an epoch second or a timestamp t (the us part is kept)
AddSec(t, k) ==
    LET s == t.sod + k
        q == IF s >= 0 THEN s \div 86400 ELSE -((86399 - s) \div 86400)
    IN [t EXCEPT !.day = t.day + q, !.sod = s - q * 86400]

\* int(x) of a float timestamp: truncation toward zero, an epoch second
IntTrunc(ts) ==
    LET fl == [day |-> ts.day, sod |-> ts.sod]
    IN IF ts.day < 0 /\ ts.us > 0 THEN AddSec(fl, 1) ELSE fl

\* a - b in seconds, for epoch seconds less than 2^31 seconds apart
SecDiff(a, b) == (a.day - b.day) * 86400 + (a.sod - b.sod)
SecLt(a, b) == a.day < b.day \/ (a.day = b.day /\ a.sod < b.sod)

\* mutant: the year is not rolled back when now is in January
IntervaloMesAnteriorNoRollover(n) ==
    LET ano == n.year
        mes == IF n.month > 1 THEN n.month - 1 ELSE 12
        inicio == DateTime(ano, mes, 1, 0, 0)
        fim == DateTime(ano, mes, MonthRange(ano, mes), 23 * 3600 + 59 * 60 + 59, 0)
    IN <<IntTrunc(Timestamp(inicio)), IntTrunc(Timestamp(fim))>>

intervalo_mes_anterior_utc(n) ==
    LET ano == IF n.month > 1 THEN n.year ELSE n.year - 1
        mes == IF n.month > 1 THEN n.month - 1 ELSE 12
        inicio == DateTime(ano, mes, 1, 0, 0)
        fim == DateTime(ano, mes, MonthRange(ano, mes), 23 * 3600 + 59 * 60 + 59, 0)
    IN <<IntTrunc(Timestamp(inicio)), IntTrunc(Timestamp(fim))>>

\* now_utc - timedelta(days=30) shifts the instant by 30 * 86400 seconds
intervalo_ultimos_30_dias_utc(n) ==
    LET t == Timestamp(n)
    IN <<IntTrunc(AddSec(t, -(30 * 86400))), IntTrunc(t)>>

\* main(): now = datetime.now(timezone.utc); the window by ULTIMOS_30_DIAS
ComputeWindow ==
    /\ pc = "start"
    /\ window' = IF mode THEN intervalo_ultimos_30_dias_utc(now)
                         ELSE intervalo_mes_anterior_utc(now)
    /\ pc' = "host"
    /\ UNCHANGED <<cfgVars, hostVars, fin, fout>>

\* ------------------------------------------- specification: time window

Years == 2000 .. (2000 + YearSpan)

TimeInstants ==
    { DateTime(y, m, d, s, u) :
        y \in Years, m \in 1 .. 12, d \in {1, 15, 28}, s \in {0, 86399}, u \in {0, 500000} }

InitTime ==
    /\ script \in {"cabral", "sr95"}
    /\ mode \in BOOLEAN
    /\ now \in TimeInstants
    /\ window = <<>>
    /\ pc = "start"
    /\ HostIdle
    /\ fin = None
    /\ fout = None

NextTime == ComputeWindow

SpecTime == InitTime /\ [][NextTime]_vars

\* ------------------------------------------------------------ statistics

RECURSIVE Insert(_, _)
\* x placed before the first larger element of the ascending list s
Insert(x, s) ==
    IF s = <<>> THEN <<x>>
    ELSE IF x < Head(s) THEN <<x>> \o s
    ELSE <<Head(s)>> \o Insert(x, Tail(s))

RECURSIVE Sorted(_)
\* sorted(values): ascending, stable
Sorted(s) == IF s = <<>> THEN <<>> ELSE Insert(s[Len(s)], Sorted(SubSeq(s, 1, Len(s) - 1)))

RECURSIVE SumSeq(_)
SumSeq(s) == IF s = <<>> THEN 0 ELSE Head(s) + SumSeq(Tail(s))

SeqMin(s) == CHOOSE x \in {s[i] : i \in 1 .. Len(s)} : \A j \in 1 .. Len(s) : x <= s[j]
SeqMax(s) == CHOOSE x \in {s[i] : i \in 1 .. Len(s)} : \A j \in 1 .. Len(s) : x >= s[j]

\* the body of percentile on a list vals; p is an integer percentage, so
\* k = (n - 1) * p / 100 is kn / 100 and int(k) is kn \div 100
PercentileOf(vals, p) ==
    LET n  == Len(vals)
        kn == (n - 1) * p
        f  == kn \div 100
        c  == IF f + 1 < n - 1 THEN f + 1 ELSE n - 1
    IN IF f = c THEN Rat(vals[f + 1], 1)
       ELSE Rat(vals[f + 1] * 100 + (vals[c + 1] - vals[f + 1]) * (kn - f * 100), 100)

\* mutant: the values are interpolated in the order given, without sorting
PercentileUnsorted(values, p) ==
    IF values = <<>> THEN None ELSE PercentileOf(values, p)

percentile(values, p) ==
    IF values = <<>> THEN None ELSE PercentileOf(Sorted(values), p)

\* helper specification step: fout = percentile(values, p)
PercentileCall ==
    /\ pc = "call_percentile"
    /\ fout' = percentile(fin.values, fin.p)
    /\ pc' = "ret_percentile"
    /\ UNCHANGED <<cfgVars, window, hostVars, fin>>

\* --------------------------------------- specification: percentile

InitPercentile ==
    /\ script = None
    /\ mode = FALSE
    /\ now = None
    /\ window = <<>>
    /\ HostIdle
    /\ pc = "call_percentile"
    /\ fin \in [values : SeqsUpTo(1 .. 4, MaxLen), p : 0 .. 100]
    /\ fout = None

NextPercentile == PercentileCall

SpecPercentile == InitPercentile /\ [][NextPercentile]_vars

\* --------------------------------------------------------- trend fetcher

\* a trend bucket as trend.get returns it; num is <<n>>, or <<>> for a bucket
\* without a "num" field
Bucket(n, a, lo, hi) == [num |-> n, value_avg |-> a, value_min |-> lo, value_max |-> hi]

\* int(t.get("num", 0))
NumOf(t) == IF t.num = <<>> THEN 0 ELSE t.num[1]

Project(bs, fld) == [i \in 1 .. Len(bs) |-> bs[i][fld]]

\* mutant: buckets without samples are kept
FetchTrendAvgsNoFilter(trends) ==
    IF trends = <<>> THEN << <<>>, <<>>, <<>> >>
    ELSE <<Project(trends, "value_avg"), Project(trends, "value_min"), Project(trends, "value_max")>>

\* fetch_trend_avgs after the API call returned `trends`
fetch_trend_avgs(trends) ==
    IF trends = <<>> THEN << <<>>, <<>>, <<>> >>
    ELSE LET keep(t) == NumOf(t) > 0
             buckets == SelectSeq(trends, keep)
         IN IF buckets = <<>> THEN << <<>>, <<>>, <<>> >>
            ELSE <<Project(buckets, "value_avg"),
                   Project(buckets, "value_min"),
                   Project(buckets, "value_max")>>

\* helper specification step: the reply fin of trend.get is reduced to lists
FetchCall ==
    /\ pc = "call_fetch"
    /\ fout' = fetch_trend_avgs(fin)
    /\ pc' = "ret_fetch"
    /\ UNCHANGED <<cfgVars, window, hostVars, fin>>

\* ------------------------------------ specification: trend fetcher

BucketValues ==
    { Bucket(n, t[1], t[2], t[3]) :
        n \in {<<>>, <<0>>, <<5>>}, t \in { <<100, 80, 120>>, <<40, 10, 300>>, <<7, 7, 7>> } }

InitFetch ==
    /\ script = None
    /\ mode = FALSE
    /\ now = None
    /\ window = <<>>
    /\ HostIdle
    /\ pc = "call_fetch"
    /\ fin \in SeqsUpTo(BucketValues, MaxBuckets)
    /\ fout = None

NextFetch == FetchCall

SpecFetch == InitFetch /\ [][NextFetch]_vars

\* -------------------------------------------------------- rate formatter

\* A rate is kept in base 1000: int is the list of digits of its integer part,
\* most significant first and without a leading zero (<<0>> for zero), frac
\* the digits after the point.  This keeps rates of 1000^4 and more inside
\* the model checker's integers.
Units == <<"bps", "Kbps", "Mbps", "Gbps", "Tbps">>

\* float(bps) of an integer
FloatOf(digs) == [int |-> digs, frac |-> <<>>]

\* v >= 1000
Ge1000(v) == Len(v.int) >= 2

\* v /= 1000.0
Div1000(v) ==
    [int  |-> SubSeq(v.int, 1, Len(v.int) - 1),
     frac |-> <<v.int[Len(v.int)]>> \o v.frac]

RECURSIVE UnitLoop(_, _)
\* while v >= 1000 and i < len(units) - 1: v /= 1000.0; i += 1
UnitLoop(v, i) ==
    IF Ge1000(v) /\ i < Len(Units) - 1 THEN UnitLoop(Div1000(v), i + 1) ELSE <<v, i>>

RECURSIVE DigitsValue(_)
DigitsValue(d) == IF d = <<>> THEN 0 ELSE DigitsValue(SubSeq(d, 1, Len(d) - 1)) * 1000 + d[Len(d)]

AllZero(d) == \A j \in 1 .. Len(d) : d[j] = 0

\* f"{v:.2f}": v rounded to the nearest hundredth.  tieUp tells how an exact
\* half of a hundredth goes: the binary float nearest to v lies above or below
\* the half (999995/1000.0 prints 1000.00, 1005/1000.0 prints 1.00).
TwoDecimals(v, tieUp) ==
    LET whole == DigitsValue(v.int)
        f1    == IF v.frac = <<>> THEN 0 ELSE v.frac[1]
        rest  == IF v.frac = <<>> THEN <<>> ELSE Tail(v.frac)
        d     == f1 % 10
        up    == d > 5 \/ (d = 5 /\ (~AllZero(rest) \/ tieUp))
        cents == (f1 \div 10) + (IF up THEN 1 ELSE 0)
    IN IF cents = 100 THEN [whole |-> whole + 1, cents |-> 0]
       ELSE [whole |-> whole, cents |-> cents]

IsTie(v) ==
    /\ v.frac # <<>>
    /\ v.frac[1] % 10 = 5
    /\ AllZero(Tail(v.frac))

\* format_bps(bps): the printed magnitude, the unit and the divisions done
format_bps(digs, tieUp) ==
    LET r == UnitLoop(FloatOf(digs), 0)
        m == TwoDecimals(r[1], tieUp)
    IN [whole |-> m.whole, cents |-> m.cents, unit |-> Units[r[2] + 1], divs |-> r[2]]

\* helper specification step: fout = format_bps(fin)
FormatCall ==
    /\ pc = "call_format"
    /\ \E tieUp \in BOOLEAN :
          /\ (tieUp => IsTie(UnitLoop(FloatOf(fin), 0)[1]))
          /\ fout' = format_bps(fin, tieUp)
    /\ pc' = "ret_format"
    /\ UNCHANGED <<cfgVars, window, hostVars, fin>>

\* ------------------------------------ specification: rate formatter

GroupValues == {0, 1, 5, 500, 999}

Rates ==
    { d \in SeqsUpTo(GroupValues, MaxGroups) : Len(d) >= 1 /\ (d[1] = 0 => Len(d) = 1) }

InitFormat ==
    /\ script = None
    /\ mode = FALSE
    /\ now = None
    /\ window = <<>>
    /\ HostIdle
    /\ pc = "call_format"
    /\ fin \in Rates
    /\ fout = None

NextFormat == FormatCall

SpecFormat == InitFormat /\ [][NextFormat]_vars

\* ---------------------------------------------------- interface listing

\* text is a list of one-character strings
Digits == {"0", "1", "2", "3", "4", "5", "6", "7", "8", "9"}
DigitVal(ch) ==
    CASE ch = "0" -> 0 [] ch = "1" -> 1 [] ch = "2" -> 2 [] ch = "3" -> 3 [] ch = "4" -> 4
      [] ch = "5" -> 5 [] ch = "6" -> 6 [] ch = "7" -> 7 [] ch = "8" -> 8 [] ch = "9" -> 9

RECURSIVE IntOf(_)
\* int(m.group(1))
IntOf(ds) == IF ds = <<>> THEN 0 ELSE IntOf(SubSeq(ds, 1, Len(ds) - 1)) * 10 + DigitVal(ds[Len(ds)])

\* re.search(r'\.(\d+)\]$', key_): the key ends with "]", before it stands a
\* non-empty run of digits and before the run a ".".  The result is <<idx>>,
\* or <<>> for None
idx_from_key(key) ==
    LET n == Len(key)
        starts == { j \in 2 .. n - 1 :
                      /\ key[j - 1] = "."
                      /\ \A h \in j .. n - 1 : key[h] \in Digits }
    IN IF n >= 3 /\ key[n] = "]" /\ starts # {}
       THEN <<IntOf(SubSeq(key, CHOOSE j \in starts : TRUE, n - 1))>>
       ELSE <<>>

Item(id, nm, key) == [itemid |-> id, name |-> nm, key_ |-> key]

RECURSIVE LoopIn(_, _)
\* for it in items_in: idx_in[idx] = it; name_by_idx.setdefault; names_all[idx] = name
LoopIn(items, acc) ==
    IF items = <<>> THEN acc
    ELSE LET it == Head(items)
             m   == idx_from_key(it.key_)
             idx == m[1]
             nxt == IF m = <<>> THEN acc
                    ELSE [idx_in      |-> DictSet(acc.idx_in, idx, it),
                          idx_out     |-> acc.idx_out,
                          name_by_idx |-> SetDefault(acc.name_by_idx, idx, it.name),
                          names_all   |-> DictSet(acc.names_all, idx, it.name)]
         IN LoopIn(Tail(items), nxt)

RECURSIVE LoopOut(_, _)
\* for it in items_out: idx_out[idx] = it; both names by setdefault
LoopOut(items, acc) ==
    IF items = <<>> THEN acc
    ELSE LET it == Head(items)
             m   == idx_from_key(it.key_)
             idx == m[1]
             nxt == IF m = <<>> THEN acc
                    ELSE [idx_in      |-> acc.idx_in,
                          idx_out     |-> DictSet(acc.idx_out, idx, it),
                          name_by_idx |-> SetDefault(acc.name_by_idx, idx, it.name),
                          names_all   |-> SetDefault(acc.names_all, idx, it.name)]
         IN LoopOut(Tail(items), nxt)

\* listar_itens_ifaces after both item.get calls returned
listar_itens_ifaces(items_in, items_out) ==
    LoopOut(items_out,
            LoopIn(items_in,
                   [idx_in |-> EmptyDict, idx_out |-> EmptyDict,
                    name_by_idx |-> EmptyDict, names_all |-> EmptyDict]))

\* helper specification step: fout = the four dicts of listar_itens_ifaces
ListCall ==
    /\ pc = "call_list"
    /\ fout' = listar_itens_ifaces(fin.items_in, fin.items_out)
    /\ pc' = "ret_list"
    /\ UNCHANGED <<cfgVars, window, hostVars, fin>>

\* --------------------------------- specification: interface listing

\* item names; item.get is asked for "sortfield": "name", so a reply lists
\* its items by ascending name
NameOrder == << <<"P", "E">>, <<"l", "o">>, <<"x", "t", "e">> >>
NameRank(nm) == CHOOSE r \in 1 .. Len(NameOrder) : NameOrder[r] = nm
SortedByName(items) ==
    \A i \in 1 .. Len(items) - 1 : NameRank(items[i].name) <= NameRank(items[i + 1].name)

\* keys of one host, "i" standing for the searched text net.if.in[ifHCInOctets
\* (or its outbound twin): index 1, index 1 again under a longer suffix,
\* index 2, and a key that does not end in ".<digits>]"
ListKeys ==
    << <<"i", ".", "1", "]">>, <<"i", ".", "2", ".", "1", "]">>,
       <<"i", ".", "2", "]">>, <<"i", ".", "1", ",", "a", "]">> >>

\* an item id identifies one key of the host
ListItems == { Item(k, NameOrder[r], ListKeys[k]) : r \in 1 .. 2, k \in 1 .. Len(ListKeys) }

DistinctItems(items) ==
    \A i, j \in 1 .. Len(items) : i # j => items[i].itemid # items[j].itemid

ListReplies ==
    { r \in SeqsUpTo(ListItems, MaxItems) : SortedByName(r) /\ DistinctItems(r) }

InitList ==
    /\ script = None
    /\ mode = FALSE
    /\ now = None
    /\ window = <<>>
    /\ HostIdle
    /\ pc = "call_list"
    /\ fin \in [items_in : ListReplies, items_out : ListReplies]
    /\ fout = None

NextList == ListCall

SpecList == InitList /\ [][NextList]_vars

\* ------------------------------------------------- reporting run: data

\* len(HOSTS) and len(HOSTS_IFINDEX): both scripts configure two hosts
NumHosts == 2

\* PRINT_P95
PRINT_P95 == TRUE

\* HOSTS_IFINDEX[host]: the interface names of a host, here 1, 2, ...
IfIndexes(hst) == [i \in 1 .. IfacesPerHost |-> i]

\* LABEL_PATTERNS ("transit-EdgeUno", "Peering"), shortened to two letters
LABEL_PATTERNS == << <<"t", "E">>, <<"P", "e">> >>

\* str.lower() on the letters used
LowerChar(ch) ==
    CASE ch = "P" -> "p" [] ch = "E" -> "e" [] ch = "T" -> "t" [] ch = "X" -> "x"
      [] ch = "L" -> "l" [] ch = "O" -> "o" [] OTHER -> ch
Lower(txt) == [i \in 1 .. Len(txt) |-> LowerChar(txt[i])]

\* a in b, for text
IsSubstr(a, b) ==
    \E i \in 0 .. Len(b) - Len(a) : SubSeq(b, i + 1, i + Len(a)) = a

SeqToSet(sq) == {sq[i] : i \in 1 .. Len(sq)}

\* indices_por_label_patterns(names_all, patterns)
indices_por_label_patterns(names_all, patterns) ==
    [p \in SeqToSet(patterns) |->
        { idx \in DOMAIN names_all : IsSubstr(Lower(p), Lower(names_all[idx])) }]

RECURSIVE SortedSet(_)
\* sorted(S) of a set of integers
SortedSet(S) ==
    IF S = {} THEN <<>>
    ELSE LET m == CHOOSE x \in S : \A y \in S : x <= y
         IN <<m>> \o SortedSet(S \ {m})

\* item keys: a key family and the interface name or index put in it
KeyOf(fam, ifc) == [fam |-> fam, ifc |-> ifc]
Meta(key, ifc, dir, label) == [key |-> key, ifc |-> ifc, dir |-> dir, label |-> label]

RECURSIVE Flatten(_)
Flatten(ss) == IF ss = <<>> THEN <<>> ELSE Head(ss) \o Flatten(Tail(ss))

\* cabral: meta_list of a host, IN then OUT per configured interface
MetaListCabral(hst) ==
    Flatten([i \in 1 .. Len(IfIndexes(hst)) |->
        LET ifname == IfIndexes(hst)[i]
        IN << Meta(KeyOf("SnmpInterfaceInTraffic", ifname), ifname, "IN", None),
              Meta(KeyOf("SnmpInterfaceOutTraffic", ifname), ifname, "OUT", None) >>])

\* sr95: key_to_meta in insertion order, IN then OUT per matched index; the
\* label is names_all[idx]
MetaListSr95(all_indices, names_all) ==
    Flatten([i \in 1 .. Len(all_indices) |->
        LET idx == all_indices[i]
        IN << Meta(KeyOf("net.if.in[ifHCInOctets.", idx), idx, "IN", names_all[idx]),
              Meta(KeyOf("net.if.out[ifHCOutOctets.", idx), idx, "OUT", names_all[idx]) >>])

KeysNeeded(metas) == [i \in 1 .. Len(metas) |-> metas[i].key]

\* missing = [k for k in keys_needed if k not in found]
Missing(metas, fnd) ==
    LET absent(k) == k \notin fnd IN SelectSeq(KeysNeeded(metas), absent)

\* a direction slot is <<>> (None) or <<summary>>
NoSlot == <<>>
\* {"label": label, "IN": None, "OUT": None}
NewEntry(label) == ("label" :> label) @@ ("IN" :> NoSlot) @@ ("OUT" :> NoSlot)

\* mutant: min and max are taken from the averages
DirectionSummaryOfAvgs(avgs, mins, maxs) ==
    [media       |-> Rat(SumSeq(avgs), Len(avgs)),
     min         |-> SeqMin(avgs),
     max         |-> SeqMax(avgs),
     p95         |-> IF PRINT_P95 THEN percentile(avgs, 95) ELSE None,
     total_bytes |-> Rat(SumSeq([i \in 1 .. Len(avgs) |-> avgs[i] * 3600]), 8)]

\* mutant: min and max change places
DirectionSummarySwapped(avgs, mins, maxs) ==
    [media       |-> Rat(SumSeq(avgs), Len(avgs)),
     min         |-> SeqMax(maxs),
     max         |-> SeqMin(mins),
     p95         |-> IF PRINT_P95 THEN percentile(avgs, 95) ELSE None,
     total_bytes |-> Rat(SumSeq([i \in 1 .. Len(avgs) |-> avgs[i] * 3600]), 8)]

\* the direction summary built from the three lists (avgs not empty)
DirectionSummary(avgs, mins, maxs) ==
    [media       |-> Rat(SumSeq(avgs), Len(avgs)),
     min         |-> SeqMin(mins),
     max         |-> SeqMax(maxs),
     p95         |-> IF PRINT_P95 THEN percentile(avgs, 95) ELSE None,
     total_bytes |-> Rat(SumSeq([i \in 1 .. Len(avgs) |-> avgs[i] * 3600]), 8)]

\* the slot after a trend.get reply: `old` when the reply holds no data
SlotAfter(old, trends) ==
    LET l == fetch_trend_avgs(trends)
    IN IF l[1] = <<>> THEN old ELSE <<DirectionSummary(l[1], l[2], l[3])>>

\* the parameters of one API call: arg lists the keys asked for (a listing
\* searches a key family, written as the family with index 0; trend.get
\* names the one item of a key); win is <<>> for item.get
Call(method, hst, arg, win) == [method |-> method, host |-> hst, arg |-> arg, win |-> win]

\* mutant: time_from and time_till change places
TrendCallSwapped(hst, key, win) == Call("trend.get", hst, <<key>>, <<win[2], win[1]>>)

\* trend.get for one item: "itemids": itemid, time_from, time_till
TrendCall(hst, key, win) == Call("trend.get", hst, <<key>>, win)

\* a printed line
Line(kind, ifc, dir, what) == [kind |-> kind, ifc |-> ifc, dir |-> dir, what |-> what]

\* ---------------------------------------------- reporting run: actions

\* how an API call fails: requests raises (HTTP, connection, timeout), or the
\* reply carries a JSON-RPC error object and zabbix_api raises RuntimeError
FailKinds == {"http", "rpc"}

\* the diagnostic sample size of sr95
SampleSize == 30

Min2(a, b) == IF a < b THEN a ELSE b

\* mutant: every call is sent a second time
IssueTwice(c) ==
    /\ calls' = calls \o <<c, c>>
    /\ visited' = visited \cup {hostIdx}

\* the call is recorded as issued for the current host
Issue(c) ==
    /\ calls' = Append(calls, c)
    /\ visited' = visited \cup {hostIdx}

\* `continue`, or the end of the loop body: on to the next host
NextHost ==
    /\ hostIdx' = hostIdx + 1
    /\ pc' = "host"

\* for host in HOSTS: the header is printed, the per-host names are fresh;
\* cabral builds keys_needed / meta_list from the configuration
HostBegin ==
    /\ pc = "host"
    /\ hostIdx <= NumHosts
    /\ out' = << Line("host", hostIdx, "", <<>>) >>
    /\ lst' = EmptyDict
    /\ found' = {}
    /\ pos' = 1
    /\ by_if' = EmptyDict
    /\ trendRet' = EmptyDict
    /\ calls' = <<>>
    /\ status' = "running"
    /\ IF script = "cabral"
         THEN keys' = MetaListCabral(hostIdx) /\ pc' = "resolve"
         ELSE keys' = <<>> /\ pc' = "list_in"
    /\ UNCHANGED <<cfgVars, window, hostIdx, visited, failures, fin, fout>>

\* the host list is exhausted: main returns
RunEnd ==
    /\ pc = "host"
    /\ hostIdx > NumHosts
    /\ pc' = "end"
    /\ UNCHANGED <<cfgVars, window, hostVars, fin, fout>>

\* an exception leaves main: the handler under __main__ prints it and the
\* process ends
TopLevelHandler(kind) ==
    /\ pc' = "aborted"
    /\ failures' = failures \cup {hostIdx}
    /\ status' = "aborted"
    /\ out' = Append(out, Line("top_level_error", hostIdx, "", kind))
    /\ UNCHANGED hostIdx

\* sr95, listar_itens_ifaces: the first item.get (inbound items) returns
ListInOk(reply) ==
    /\ pc = "list_in"
    /\ Issue(Call("item.get", hostIdx, <<KeyOf("net.if.in[ifHCInOctets.", 0)>>, <<>>))
    /\ lst' = [items_in |-> reply]
    /\ pc' = "list_out"
    /\ UNCHANGED <<cfgVars, window, hostIdx, keys, found, pos, by_if, trendRet, out,
                   failures, status, fin, fout>>

\* sr95: an item.get of listar_itens_ifaces fails; main's except prints
\* "Falha ao listar itens do host" and continues with the next host
ListFail(kind) ==
    /\ pc \in {"list_in", "list_out"}
    /\ Issue(Call("item.get", hostIdx,
                  <<KeyOf(IF pc = "list_in" THEN "net.if.in[ifHCInOctets."
                                            ELSE "net.if.out[ifHCOutOctets.", 0)>>, <<>>))
    /\ failures' = failures \cup {hostIdx}
    /\ out' = Append(out, Line("list_failed", hostIdx, "", kind))
    /\ status' = "list_failed"
    /\ NextHost
    /\ UNCHANGED <<cfgVars, window, lst, keys, found, pos, by_if, trendRet, fin, fout>>

\* sr95: the diagnostic printed when no interface matches a label
Diagnostic(names_all) ==
    LET idxs  == SortedSet(DOMAIN names_all)
        shown == Min2(Len(idxs), SampleSize)
    IN << Line("no_match", 0, "", LABEL_PATTERNS) >>
       \o [i \in 1 .. shown |-> Line("available", idxs[i], "", names_all[idxs[i]])]
       \o (IF Len(idxs) >= SampleSize THEN << Line("truncated", 0, "", <<>>) >> ELSE <<>>)

\* sr95: the second item.get (outbound items) returns; the dicts are built,
\* the labels matched and the keys of the matched indices collected
ListOutOk(reply) ==
    /\ pc = "list_out"
    /\ Issue(Call("item.get", hostIdx, <<KeyOf("net.if.out[ifHCOutOctets.", 0)>>, <<>>))
    /\ LET L   == listar_itens_ifaces(lst.items_in, reply)
           mm  == indices_por_label_patterns(L.names_all, LABEL_PATTERNS)
           all_indices == SortedSet(UNION {mm[p] : p \in DOMAIN mm})
       IN /\ lst' = [items_in |-> lst.items_in, items_out |-> reply, idx_in |-> L.idx_in,
                     idx_out |-> L.idx_out, name_by_idx |-> L.name_by_idx,
                     names_all |-> L.names_all, match_map |-> mm]
          /\ IF DOMAIN L.names_all = {}
               THEN /\ out' = Append(out, Line("no_interfaces", hostIdx, "", <<>>))
                    /\ status' = "no_interfaces"
                    /\ NextHost
                    /\ UNCHANGED keys
               ELSE IF all_indices = <<>>
               THEN /\ out' = out \o Diagnostic(L.names_all)
                    /\ status' = "no_match"
                    /\ NextHost
                    /\ UNCHANGED keys
               ELSE /\ keys' = MetaListSr95(all_indices, L.names_all)
                    /\ pc' = "resolve"
                    /\ UNCHANGED <<out, status, hostIdx>>
    /\ UNCHANGED <<cfgVars, window, found, pos, by_if, trendRet, failures, fin, fout>>

\* the missing keys as printed: cabral prints the list, sr95 its first 10
MissingShown(missing) ==
    IF script = "cabral" THEN missing ELSE SubSeq(missing, 1, Min2(Len(missing), 10))

\* the key-resolving item.get returns the items of the keys in fnd
ResolveOk(fnd) ==
    /\ pc = "resolve"
    /\ Issue(Call("item.get", hostIdx, KeysNeeded(keys), <<>>))
    /\ found' = fnd
    /\ out' = IF Missing(keys, fnd) = <<>> THEN out
              ELSE Append(out, Line("missing", hostIdx, "", MissingShown(Missing(keys, fnd))))
    /\ pos' = 1
    /\ pc' = IF keys = <<>> THEN "report" ELSE "trend"
    /\ UNCHANGED <<cfgVars, window, hostIdx, lst, keys, by_if, trendRet, failures, status,
                   fin, fout>>

\* the key-resolving item.get fails: nothing in main catches it
ResolveFail(kind) ==
    /\ pc = "resolve"
    /\ Issue(Call("item.get", hostIdx, KeysNeeded(keys), <<>>))
    /\ TopLevelHandler(kind)
    /\ UNCHANGED <<cfgVars, window, lst, keys, found, pos, by_if, trendRet, fin, fout>>

\* the aggregation loop moves to the next key, or ends
Advance ==
    /\ pos' = pos + 1
    /\ pc' = IF pos + 1 > Len(keys) THEN "report" ELSE "trend"

\* mutant: a key that was not found leaves no entry
MissingEntryDropped(by, m) == by

\* by_if.setdefault(ifname, {..., "IN": None, "OUT": None}) for a key that
\* item.get did not return
MissingEntry(by, m) == SetDefault(by, m.ifc, NewEntry(m.label))

\* cabral: the sanitized name of the item found under a key (its text is
\* not modelled, only which item it comes from)
ItemName(key) == <<"name of", key>>

\* cabral, before the fetch: the entry exists and carries a name
NamedEntry(by, m) ==
    IF m.ifc \notin DOMAIN by THEN DictSet(by, m.ifc, NewEntry(ItemName(m.key)))
    ELSE IF by[m.ifc]["label"] = None
         THEN [by EXCEPT ![m.ifc]["label"] = ItemName(m.key)]
         ELSE by

\* mutant: a reply without data is stored as a summary of nothing
StoreSlotAlways(by, m, trends) ==
    LET b1 == IF script = "cabral" THEN NamedEntry(by, m)
              ELSE SetDefault(by, m.ifc, NewEntry(m.label))
        l  == FetchTrendAvgsNoFilter(trends)
    IN [b1 EXCEPT ![m.ifc][m.dir] =
          IF trends = <<>> THEN NoSlot ELSE <<DirectionSummary(l[1], l[2], l[3])>>]

\* by_if after the trend.get of key m returned `trends`.  cabral leaves the
\* slot as it is when there is no data; sr95 sets it to None
StoreSlot(by, m, trends) ==
    LET b1 == IF script = "cabral" THEN NamedEntry(by, m)
              ELSE SetDefault(by, m.ifc, NewEntry(m.label))
        old == IF script = "cabral" THEN b1[m.ifc][m.dir] ELSE NoSlot
    IN [b1 EXCEPT ![m.ifc][m.dir] = SlotAfter(old, trends)]

\* loop body for a key item.get did not return: entry by setdefault, continue
TrendMissing ==
    /\ pc = "trend"
    /\ keys[pos].key \notin found
    /\ by_if' = MissingEntry(by_if, keys[pos])
    /\ Advance
    /\ UNCHANGED <<cfgVars, window, hostIdx, lst, keys, found, trendRet, calls, out, visited,
                   failures, status, fin, fout>>

\* loop body for a found key: trend.get returns `trends`
TrendOk(trends) ==
    /\ pc = "trend"
    /\ keys[pos].key \in found
    /\ Issue(TrendCall(hostIdx, keys[pos].key, window))
    /\ trendRet' = DictSet(trendRet, keys[pos].key, trends)
    /\ by_if' = StoreSlot(by_if, keys[pos], trends)
    /\ Advance
    /\ UNCHANGED <<cfgVars, window, hostIdx, lst, keys, found, out, failures, status, fin, fout>>

\* loop body for a found key: trend.get fails; nothing in main catches it
TrendFail(kind) ==
    /\ pc = "trend"
    /\ keys[pos].key \in found
    /\ Issue(TrendCall(hostIdx, keys[pos].key, window))
    /\ by_if' = IF script = "cabral" THEN NamedEntry(by_if, keys[pos]) ELSE by_if
    /\ TopLevelHandler(kind)
    /\ UNCHANGED <<cfgVars, window, lst, keys, found, pos, trendRet, fin, fout>>

\* the lines printed for one direction of an entry
DirLines(ifc, dir, slot) ==
    IF slot # NoSlot THEN << Line("stats", ifc, dir, slot[1]) >>
    ELSE << Line("no_data", ifc, dir, <<>>) >>

\* the lines printed for one interface entry
EntryLines(ifc, e) ==
    << Line("iface", ifc, "", e["label"]) >>
    \o DirLines(ifc, "IN", e["IN"])
    \o DirLines(ifc, "OUT", e["OUT"])
    \o (IF e["IN"] # NoSlot /\ e["OUT"] # NoSlot
        THEN << Line("aggregate", ifc, "", <<>>) >> ELSE <<>>)

\* cabral: the report of a host
ReportCabral ==
    IF DOMAIN by_if = {} THEN << Line("nothing_processed", hostIdx, "", <<>>) >>
    ELSE LET ifs == SortedSet(DOMAIN by_if)
         IN Flatten([i \in 1 .. Len(ifs) |-> EntryLines(ifs[i], by_if[ifs[i]])])

\* sr95: the report of a host, by label pattern and matched index
ReportSr95 ==
    Flatten([i \in 1 .. Len(LABEL_PATTERNS) |->
        LET pattern == LABEL_PATTERNS[i]
            indices == SortedSet(lst.match_map[pattern])
        IN IF indices = <<>> THEN <<>>
           ELSE << Line("pattern", 0, "", pattern) >>
                \o Flatten([j \in 1 .. Len(indices) |->
                      LET idx == indices[j]
                          entry == IF idx \in DOMAIN by_if THEN by_if[idx]
                                   ELSE NewEntry(lst.names_all[idx])
                      IN EntryLines(idx, entry)])])

\* the aggregation loop is over: the host's report is printed
Report ==
    /\ pc = "report"
    /\ out' = out \o (IF script = "cabral" THEN ReportCabral ELSE ReportSr95)
    /\ status' = "reported"
    /\ NextHost
    /\ UNCHANGED <<cfgVars, window, lst, keys, found, pos, by_if, trendRet, calls, visited,
                   failures, fin, fout>>

\* ---------------------------------------- specification: reporting run

\* trend.get replies of the run: no bucket, only a zero-sample placeholder,
\* a placeholder before a data bucket, two data buckets
RunTrendReplies ==
    { <<>>,
      << Bucket(<<0>>, 0, 0, 0) >>,
      << Bucket(<<0>>, 0, 0, 0), Bucket(<<5>>, 100, 80, 120) >>,
      << Bucket(<<2>>, 40, 10, 300), Bucket(<<5>>, 100, 80, 120) >> }

\* listing replies of the run (sr95): interface 1 "PE", interface 2 "lo" or "xte"
RunItemsIn ==
    { <<>>,
      << Item(3, NameOrder[2], ListKeys[3]) >>,
      << Item(1, NameOrder[1], ListKeys[1]) >>,
      << Item(1, NameOrder[1], ListKeys[1]), Item(3, NameOrder[3], ListKeys[3]) >> }

RunItemsOut ==
    { <<>>, << Item(5, NameOrder[1], ListKeys[1]) >> }

RunInstants == { DateTime(2025, 1, 15, 0, 0), DateTime(2024, 3, 31, 86399, 500000) }

Init ==
    /\ script \in {"cabral", "sr95"}
    /\ mode \in BOOLEAN
    /\ now \in RunInstants
    /\ window = <<>>
    /\ pc = "start"
    /\ HostIdle
    /\ fin = None
    /\ fout = None

Next ==
    \/ ComputeWindow
    \/ HostBegin
    \/ RunEnd
    \/ \E reply \in RunItemsIn : ListInOk(reply)
    \/ \E reply \in RunItemsOut : ListOutOk(reply)
    \/ \E kind \in FailKinds : ListFail(kind)
    \/ \E fnd \in SUBSET SeqToSet(KeysNeeded(keys)) : ResolveOk(fnd)
    \/ \E kind \in FailKinds : ResolveFail(kind)
    \/ TrendMissing
    \/ \E trends \in RunTrendReplies : TrendOk(trends)
    \/ \E kind \in FailKinds : TrendFail(kind)
    \/ Report

Spec == Init /\ [][Next]_vars

\* ------------------------------------------------------- label matching

\* " | ", the text put between the blocks by " | ".join(flat)
Separator == <<" ", "|", " ">>

\* a tag of an item as selectTags returns it
Tag(k, v) == [tag |-> k, value |-> v]

\* textblocks after flattening: the name, then tag and value of every tag
TextBlocks(name, tags) ==
    <<name>> \o Flatten([i \in 1 .. Len(tags) |-> <<tags[i].tag, tags[i].value>>])

RECURSIVE Join(_)
\* " | ".join(flat)
Join(flat) ==
    IF flat = <<>> THEN <<>>
    ELSE IF Len(flat) = 1 THEN flat[1]
    ELSE flat[1] \o Separator \o Join(Tail(flat))

\* match_patterns(name, tags, patterns) of zabbix-testar-labels.py
match_patterns(name, tags, patterns) ==
    LET text == IF tags # <<>> THEN Lower(Join(TextBlocks(name, tags))) ELSE Lower(name)
    IN [p \in SeqToSet(patterns) |-> IsSubstr(Lower(p), text)]

\* helper specification step: both label matchers are applied to fin
MatchCall ==
    /\ pc = "call_match"
    /\ fout' = [by_name |-> indices_por_label_patterns(fin.names_all, fin.patterns),
                by_tags |-> match_patterns(fin.name, fin.tags, fin.patterns)]
    /\ pc' = "ret_match"
    /\ UNCHANGED <<cfgVars, window, hostVars, fin>>

\* ------------------------------------- specification: label matching

\* "Peering-Transit-1" and "peering"
PeeringTransit1 ==
    <<"P", "e", "e", "r", "i", "n", "g", "-", "T", "r", "a", "n", "s", "i", "t", "-", "1">>
PeeringPattern == <<"p", "e", "e", "r", "i", "n", "g">>

\* item names: none, two short names, and the name of the documented example
MatchNames == { <<>>, <<"P", "E", "x">>, <<"x", "t", "e">>, PeeringTransit1 }

\* tags of an item: key "x" or "te", value empty or "Pe"
MatchTags == { Tag(k, v) : k \in { <<"x">>, <<"t", "e">> }, v \in { <<>>, <<"P", "e">> } }

\* label patterns: two letters in either case, the documented one, and two
\* that hold characters of the separator
MatchPatterns ==
    { <<"P", "e">>, <<"t", "E">>, PeeringPattern, <<"e", " ", "|", " ", "x">>, <<"|">> }

\* LABEL_PATTERNS lists two patterns
MatchPatternLists == { <<a, b>> : a, b \in MatchPatterns } \ { <<a, a>> : a \in MatchPatterns }

\* names_all of a host: index 1 carries the item's name, index 2 may exist
MatchNamesAll(name) ==
    { (1 :> name) } \cup { (1 :> name) @@ (2 :> other) : other \in MatchNames }

InitMatch ==
    /\ script = None
    /\ mode = FALSE
    /\ now = None
    /\ window = <<>>
    /\ HostIdle
    /\ pc = "call_match"
    /\ \E nm \in MatchNames :
          fin \in [name : {nm}, tags : SeqsUpTo(MatchTags, MaxTags),
                   names_all : MatchNamesAll(nm), patterns : MatchPatternLists]
    /\ fout = None

NextMatch == MatchCall

SpecMatch == InitMatch /\ [][NextMatch]_vars

\* ------------------------------------------- label test run: data

\* len(KEY_FAMILIES) of zabbix-testar-labels.py
NumFamilies == 6

\* an item with its tags, as item.get with selectTags returns it
TaggedItem(id, nm, key, tags) == [itemid |-> id, name |-> nm, key_ |-> key, tags |-> tags]

RECURSIVE Dedup(_, _)
\* dedup by itemid, the first occurrence is kept
Dedup(items, seen) ==
    IF items = <<>> THEN <<>>
    ELSE IF Head(items).itemid \in seen THEN Dedup(Tail(items), seen)
    ELSE <<Head(items)>> \o Dedup(Tail(items), seen \cup {Head(items).itemid})

\* counters[p]: the number of items pattern p matches
MatchCounters(items) ==
    [p \in SeqToSet(LABEL_PATTERNS) |->
        Cardinality({ i \in 1 .. Len(items) :
            match_patterns(items[i].name, items[i].tags, LABEL_PATTERNS)[p] })]

\* how an API call of the label test fails: requests raises, the reply holds
\* a JSON-RPC error object, or anything else is raised
LabelFailKinds == FailKinds \cup {"other"}

\* the API call made at position pc of the host's body
LabelCall ==
    Call(CASE pc = "host_get" -> "host.get"
           [] pc = "family" -> "item.get"
           [] pc = "diag_info" -> "host.get"
           [] pc = "diag_ifs" -> "hostinterface.get",
         hostIdx, <<KeyOf(pc, IF pc = "family" THEN pos ELSE 0)>>, <<>>)

\* ---------------------------------------- label test run: actions

\* for host in HOSTS: the header is printed
LabelHostBegin ==
    /\ pc = "host"
    /\ hostIdx <= NumHosts
    /\ out' = << Line("host", hostIdx, "", <<>>) >>
    /\ lst' = <<>>
    /\ pos' = 1
    /\ calls' = <<>>
    /\ status' = "running"
    /\ pc' = "host_get"
    /\ UNCHANGED <<cfgVars, window, hostIdx, keys, found, by_if, trendRet, visited, failures,
                   fin, fout>>

\* the host list is exhausted: main returns
LabelRunEnd ==
    /\ pc = "host"
    /\ hostIdx > NumHosts
    /\ pc' = "end"
    /\ UNCHANGED <<cfgVars, window, hostVars, fin, fout>>

\* host.get returns: an unknown host is reported and skipped
HostGetOk(exists) ==
    /\ pc = "host_get"
    /\ Issue(LabelCall)
    /\ IF exists
         THEN pc' = "family" /\ UNCHANGED <<out, status, hostIdx>>
         ELSE /\ out' = Append(out, Line("no_host", hostIdx, "", <<>>))
              /\ status' = "no_host"
              /\ NextHost
    /\ UNCHANGED <<cfgVars, window, lst, keys, found, pos, by_if, trendRet, failures, fin, fout>>

\* what main prints after coletar_itens_iface_com_tags returned `items`
AfterCollect(items) ==
    << Line("count", hostIdx, "", Len(items)) >>
    \o (IF items = <<>> THEN << Line("no_items", hostIdx, "", <<>>) >>
        ELSE << Line("details", hostIdx, "", Len(items)),
                Line("matches", hostIdx, "", MatchCounters(items)) >>)

\* coletar_itens_iface_com_tags: the item.get of family pos returns; after the
\* last family the items are deduplicated and main prints its findings
FamilyOk(reply) ==
    /\ pc = "family"
    /\ Issue(LabelCall)
    /\ IF pos < NumFamilies
         THEN /\ lst' = lst \o reply
              /\ pos' = pos + 1
              /\ UNCHANGED <<pc, out, status, hostIdx>>
         ELSE LET items == Dedup(lst \o reply, {})
              IN /\ lst' = items
                 /\ out' = out \o AfterCollect(items)
                 /\ UNCHANGED pos
                 /\ IF items = <<>>
                      THEN pc' = "diag_info" /\ UNCHANGED <<status, hostIdx>>
                      ELSE status' = "reported" /\ NextHost
    /\ UNCHANGED <<cfgVars, window, keys, found, by_if, trendRet, failures, fin, fout>>

\* an API call of the host's try block fails: the except clauses of the loop
\* body print a message, the loop goes on with the next host
LabelCallFail(kind) ==
    /\ pc \in {"host_get", "family"}
    /\ Issue(LabelCall)
    /\ failures' = failures \cup {hostIdx}
    /\ out' = Append(out, Line("error", hostIdx, "", kind))
    /\ status' = "failed"
    /\ NextHost
    /\ UNCHANGED <<cfgVars, window, lst, keys, found, pos, by_if, trendRet, fin, fout>>

\* the extra help when no item was returned: host.get with the templates
DiagInfoOk ==
    /\ pc = "diag_info"
    /\ Issue(LabelCall)
    /\ out' = Append(out, Line("templates", hostIdx, "", <<>>))
    /\ pc' = "diag_ifs"
    /\ UNCHANGED <<cfgVars, window, hostIdx, lst, keys, found, pos, by_if, trendRet, failures,
                   status, fin, fout>>

\* the extra help: hostinterface.get, then `continue`
DiagIfsOk ==
    /\ pc = "diag_ifs"
    /\ Issue(LabelCall)
    /\ out' = Append(out, Line("interfaces", hostIdx, "", <<>>))
    /\ status' = "diagnosed"
    /\ NextHost
    /\ UNCHANGED <<cfgVars, window, lst, keys, found, pos, by_if, trendRet, failures, fin, fout>>

\* a call of the extra help fails: `except Exception: pass`, then `continue`
DiagFail(kind) ==
    /\ pc \in {"diag_info", "diag_ifs"}
    /\ Issue(LabelCall)
    /\ failures' = failures \cup {hostIdx}
    /\ status' = "diag_failed"
    /\ NextHost
    /\ UNCHANGED <<cfgVars, window, lst, keys, found, pos, by_if, trendRet, out, fin, fout>>

\* ------------------------------------- specification: label test run

\* item.get replies of one key family: nothing, or one of two items
LabelReplies ==
    { <<>>,
      << TaggedItem(1, PeeringTransit1, ListKeys[1], <<>>) >>,
      << TaggedItem(2, <<"x", "t", "e">>, ListKeys[3], << Tag(<<"x">>, <<"P", "e">>) >>) >> }

InitLabels ==
    /\ script = "labels"
    /\ mode = FALSE
    /\ now = None
    /\ window = <<>>
    /\ pc = "host"
    /\ HostIdle
    /\ fin = None
    /\ fout = None

NextLabels ==
    \/ LabelHostBegin
    \/ LabelRunEnd
    \/ \E exists \in BOOLEAN : HostGetOk(exists)
    \/ \E reply \in LabelReplies : FamilyOk(reply)
    \/ \E kind \in LabelFailKinds : LabelCallFail(kind)
    \/ DiagInfoOk
    \/ DiagIfsOk
    \/ \E kind \in LabelFailKinds : DiagFail(kind)

SpecLabels == InitLabels /\ [][NextLabels]_vars

\* ------------------------------------------------- direction summary

\* helper specification step: the slot of a direction, None before, after the
\* trend.get of its item returned fin
SummaryCall ==
    /\ pc = "call_summary"
    /\ fout' = SlotAfter(NoSlot, fin)
    /\ pc' = "ret_summary"
    /\ UNCHANGED <<cfgVars, window, hostVars, fin>>

\* --------------------------------- specification: direction summary

\* buckets of a reply: with and without samples; values ordered
\* (min <= avg <= max), all equal, zero, out of order, and negative
SummaryBuckets ==
    { Bucket(n, t[1], t[2], t[3]) :
        n \in {<<0>>, <<3>>},
        t \in { <<100, 80, 120>>, <<40, 10, 300>>, <<7, 7, 7>>, <<0, 0, 0>>,
                <<5, 9, 2>>, <<-4, -6, -1>> } }

InitSummary ==
    /\ script = None
    /\ mode = FALSE
    /\ now = None
    /\ window = <<>>
    /\ HostIdle
    /\ pc = "call_summary"
    /\ fin \in SeqsUpTo(SummaryBuckets, MaxBuckets)
    /\ fout = None

NextSummary == SummaryCall

SpecSummary == InitSummary /\ [][NextSummary]_vars

\* ------------------------------------------------- claims: time window

\* reference calendar, independent of ToOrdinal: days from 1970-01-01 to the
\* civil date (y, m, d) by the era / day-of-era decomposition
RefDaysFromCivil(y, m, d) ==
    LET yy  == IF m <= 2 THEN y - 1 ELSE y
        era == yy \div 400
        yoe == yy - era * 400
        mp  == IF m > 2 THEN m - 3 ELSE m + 9
        doy == ((153 * mp + 2) \div 5) + d - 1
        doe == yoe * 365 + (yoe \div 4) - (yoe \div 100) + doy
    IN era * 146097 + doe - 719468

RefPrevYear(n) == IF n.month > 1 THEN n.year ELSE n.year - 1
RefPrevMonth(n) == IF n.month > 1 THEN n.month - 1 ELSE 12
\* number of days of the previous month: the distance between the two firsts
RefPrevDays(n) ==
    RefDaysFromCivil(n.year, n.month, 1) - RefDaysFromCivil(RefPrevYear(n), RefPrevMonth(n), 1)

CalendarDone == pc = "host" /\ ~mode

\* C7: in calendar mode the window starts at 00:00:00 of day 1 of the month
\* before now's month (December of the year before when now is in January)
\* and ends at 23:59:59 of that month's last Gregorian day: its length is
\* days_in_month * 86400 - 1, it ends one second before now's month begins,
\* and for now = 2025-01-15T00:00:00Z it is 2024-12-01T00:00:00Z (1733011200)
\* to 2024-12-31T23:59:59Z (1735689599).
C7_PreviousMonthWindow ==
    CalendarDone =>
        /\ window[1] = [day |-> RefDaysFromCivil(RefPrevYear(now), RefPrevMonth(now), 1), sod |-> 0]
        /\ window[2] = [day |-> RefDaysFromCivil(now.year, now.month, 1) - 1, sod |-> 86399]
        /\ RefPrevDays(now) \in 28 .. 31
        /\ (RefPrevMonth(now) = 2) =>
              (RefPrevDays(now) = IF IsLeap(RefPrevYear(now)) THEN 29 ELSE 28)
        /\ SecDiff(window[2], window[1]) = RefPrevDays(now) * 86400 - 1
        /\ SecLt(window[2], [day |-> RefDaysFromCivil(now.year, now.month, 1), sod |-> 0])
        /\ (now = DateTime(2025, 1, 15, 0, 0)) =>
              /\ window[1] = [day |-> 20058, sod |-> 0]
              /\ window[2] = [day |-> 20088, sod |-> 86399]

C7_Witness ==
    /\ CalendarDone
    /\ now = DateTime(2025, 1, 15, 0, 0)
    /\ window = << [day |-> 20058, sod |-> 0], [day |-> 20088, sod |-> 86399] >>

\* --------------------------------------------------- claims: percentile

\* j-th order statistic (j = 0 .. n-1) of a list, without sorting it: the
\* least x with more than j elements <= x
RefOrderStat(s, j) ==
    LET xs == {s[i] : i \in 1 .. Len(s)}
        ok(x) == Cardinality({i \in 1 .. Len(s) : s[i] <= x}) > j
    IN CHOOSE x \in xs : ok(x) /\ \A y \in xs : ok(y) => x <= y

\* the linear-interpolation reference of the claim, in hundredths
RefPercentile(s, p) ==
    LET n == Len(s)
        f == CHOOSE g \in 0 .. n - 1 : 100 * g <= (n - 1) * p /\ (n - 1) * p < 100 * (g + 1)
        c == IF f + 1 < n - 1 THEN f + 1 ELSE n - 1
        vf == RefOrderStat(s, f)
        vc == RefOrderStat(s, c)
    IN IF f = c THEN Rat(vf, 1)
       ELSE Rat(100 * vf + (vc - vf) * ((n - 1) * p - 100 * f), 100)

PercentileDone == pc = "ret_percentile"

\* C6: percentile(values, p) of a non-empty list in any order is the linear
\* interpolation between the order statistics f = floor((n-1)p/100) and
\* c = min(f+1, n-1); p = 0 gives the smallest and p = 100 the largest value,
\* percentile([1,2,3,4], 95) = 3.85, and an empty list gives None.
C6_PercentileInterpolation ==
    PercentileDone =>
        IF fin.values = <<>> THEN fout = None
        ELSE /\ fout # None
             /\ RatEq(fout, RefPercentile(fin.values, fin.p))
             /\ (fin.p = 0) => RatEq(fout, Rat(SeqMin(fin.values), 1))
             /\ (fin.p = 100) => RatEq(fout, Rat(SeqMax(fin.values), 1))
             /\ (fin.values = <<1, 2, 3, 4>> /\ fin.p = 95) => RatEq(fout, Rat(385, 100))

C6_Witness ==
    /\ PercentileDone
    /\ fin.values = <<4, 2, 1, 3>>
    /\ fin.p = 95
    /\ fout = Rat(385, 100)

\* ------------------------------------------------ claims: trend fetcher

HasData(t) == Len(t.num) = 1 /\ t.num[1] > 0

\* position in `trends` of the j-th bucket (j >= 1) that has num > 0
RefDataPos(trends, j) ==
    CHOOSE i \in 1 .. Len(trends) :
        HasData(trends[i]) /\ Cardinality({h \in 1 .. i : HasData(trends[h])}) = j

FetchDone == pc = "ret_fetch"

\* C4: fetch_trend_avgs returns three lists of equal length holding value_avg,
\* value_min and value_max of exactly the buckets with num > 0, in reply
\* order and position by position from the same bucket; a bucket with
\* num = 0 or without num contributes nothing; all three are empty when the
\* reply is empty or has no bucket with num > 0.
C4_FetchKeepsDataBuckets ==
    FetchDone =>
        LET n == Cardinality({i \in 1 .. Len(fin) : HasData(fin[i])})
        IN /\ Len(fout[1]) = n /\ Len(fout[2]) = n /\ Len(fout[3]) = n
           /\ \A j \in 1 .. n :
                 LET b == fin[RefDataPos(fin, j)]
                 IN /\ fout[1][j] = b.value_avg
                    /\ fout[2][j] = b.value_min
                    /\ fout[3][j] = b.value_max
           /\ (n = 0) => fout = << <<>>, <<>>, <<>> >>

C4_Witness ==
    /\ FetchDone
    /\ fin = << Bucket(<<0>>, 40, 10, 300), Bucket(<<5>>, 100, 80, 120), Bucket(<<>>, 7, 7, 7) >>
    /\ fout = << <<100>>, <<80>>, <<120>> >>

\* ----------------------------------------------- claims: rate formatter

FormatDone == pc = "ret_format"

\* unit index the claim asks for: the number of whole powers of 1000 in b,
\* capped at Tbps
RefUnitIndex(digs) == IF Len(digs) - 1 < 4 THEN Len(digs) - 1 ELSE 4

\* the unit-selection part of C9: at most 4 divisions, and the unit is the
\* one with 1000^i <= b < 1000^(i+1), Tbps from 1000^4 on
FormatUnitSelection ==
    FormatDone =>
        /\ fout.divs <= 4
        /\ fout.divs = RefUnitIndex(fin)
        /\ fout.unit = Units[RefUnitIndex(fin) + 1]

\* C9: format_bps does at most 4 divisions, selects the largest unit under
\* which b / 1000^i stays below 1000 (Tbps for b >= 1000^4), prints a
\* magnitude below 1000 for every b < 1000^5, and
\* format_bps(999) = "999.00 bps", format_bps(1000) = "1.00 Kbps",
\* format_bps(1500000000) = "1.50 Gbps".
C9_FormatBelowThousand ==
    FormatDone =>
        /\ fout.divs <= 4
        /\ fout.divs = RefUnitIndex(fin)
        /\ fout.unit = Units[RefUnitIndex(fin) + 1]
        /\ (Len(fin) <= 5) => fout.whole < 1000
        /\ (fin = <<999>>) => (fout.whole = 999 /\ fout.cents = 0 /\ fout.unit = "bps")
        /\ (fin = <<1, 0>>) => (fout.whole = 1 /\ fout.cents = 0 /\ fout.unit = "Kbps")
        /\ (fin = <<1, 500, 0, 0>>) => (fout.whole = 1 /\ fout.cents = 50 /\ fout.unit = "Gbps")

\* the printed examples of C9
FormatExamples ==
    FormatDone =>
        /\ (fin = <<999>>) => (fout.whole = 999 /\ fout.cents = 0 /\ fout.unit = "bps")
        /\ (fin = <<1, 0>>) => (fout.whole = 1 /\ fout.cents = 0 /\ fout.unit = "Kbps")
        /\ (fin = <<1, 500, 0, 0>>) => (fout.whole = 1 /\ fout.cents = 50 /\ fout.unit = "Gbps")

\* -------------------------------------------- claims: interface listing

ListDone == pc = "ret_list"

\* positions of the items of a reply whose key carries index idx
RefCarriers(items, idx) == { i \in 1 .. Len(items) : idx_from_key(items[i].key_) = <<idx>> }
RefHits(items) == { i \in 1 .. Len(items) : idx_from_key(items[i].key_) # <<>> }
RefFirst(S) == CHOOSE i \in S : \A j \in S : i <= j
RefLast(S) == CHOOSE i \in S : \A j \in S : i >= j
RefIndices(items) ==
    { idx_from_key(items[i].key_)[1] : i \in RefHits(items) }

\* C10: names_all[idx] is the name of the FIRST inbound item, in reply order,
\* whose key carries idx if an inbound item carries it, and otherwise the
\* name of the first outbound item carrying it.
C10_FirstInboundName ==
    ListDone =>
        /\ DOMAIN fout.names_all = RefIndices(fin.items_in) \cup RefIndices(fin.items_out)
        /\ \A idx \in DOMAIN fout.names_all :
              LET cin  == RefCarriers(fin.items_in, idx)
                  cout == RefCarriers(fin.items_out, idx)
              IN fout.names_all[idx] =
                   IF cin # {} THEN fin.items_in[RefFirst(cin)].name
                   ELSE fin.items_out[RefFirst(cout)].name

\* what the code does instead: the LAST inbound item carrying idx names it
ListLastInboundName ==
    ListDone =>
        /\ DOMAIN fout.names_all = RefIndices(fin.items_in) \cup RefIndices(fin.items_out)
        /\ \A idx \in DOMAIN fout.names_all :
              LET cin  == RefCarriers(fin.items_in, idx)
                  cout == RefCarriers(fin.items_out, idx)
              IN fout.names_all[idx] =
                   IF cin # {} THEN fin.items_in[RefLast(cin)].name
                   ELSE fin.items_out[RefFirst(cout)].name

\* ------------------------------------------------ claims: reporting run

Terminated == pc \in {"end", "aborted"}

\* the host's aggregation loop ran to its end without an API failure
HostProcessed == pc = "report" \/ status = "reported"

\* the key-resolving item.get of the host has returned
Resolved == pc \in {"trend", "report"} \/ status = "reported"

Requested == SeqToSet(KeysNeeded(keys))
MetaSet == SeqToSet(keys)
TrendCalls == { c \in SeqToSet(calls) : c.method = "trend.get" }
Printed(kind, ifc, dir) ==
    \E i \in 1 .. Len(out) : out[i].kind = kind /\ out[i].ifc = ifc /\ out[i].dir = dir

\* C1: a failed API call on a host aborts that host, prints a message, and
\* every later host of the host list is still processed: when the run is
\* over, an API call was issued for every host after a failed one.
C1_LaterHostsStillProcessed ==
    /\ \A f \in failures : f < hostIdx \/ Printed("top_level_error", f, "")
    /\ Terminated => \A f \in failures : \A g \in (f + 1) .. NumHosts : g \in visited

\* what does hold: a failed listing call of sr95 is printed and the run goes
\* on with the next host
ListFailureContinues ==
    (status = "list_failed") =>
        /\ pc \in {"host", "end"}
        /\ Printed("list_failed", hostIdx - 1, "")
        /\ (pc = "end") => visited = 1 .. NumHosts

\* C2 (state part): in cabral, a requested key that item.get did not return
\* is listed in the missing report, causes no trend.get, and leaves an entry
\* for its interface whose slot for that direction is None; every requested
\* key that was returned is fetched once the loop is over, and reduced.
C2_MissingKeyState ==
    (script = "cabral") =>
        /\ Resolved =>
              \A k \in Requested \ found :
                  \E i \in 1 .. Len(out) :
                      out[i].kind = "missing" /\ k \in SeqToSet(out[i].what)
        /\ \A c \in TrendCalls : c.arg[1] \in found
        /\ HostProcessed =>
              \A m \in MetaSet :
                  IF m.key \notin found
                  THEN m.ifc \in DOMAIN by_if /\ by_if[m.ifc][m.dir] = NoSlot
                  ELSE /\ m.key \in DOMAIN trendRet
                       /\ \E c \in TrendCalls : c.arg = <<m.key>>
                       /\ (\E i \in 1 .. Len(trendRet[m.key]) : HasData(trendRet[m.key][i]))
                             => by_if[m.ifc][m.dir] # NoSlot

\* C2 (step part): the loop body of a key that was not returned raises nothing
C2_MissingKeyStep ==
    (script = "cabral" /\ pc = "trend" /\ keys[pos].key \notin found)
        => (pc' \in {"trend", "report"} /\ failures' = failures)

\* C2: in cabral a requested key absent from the item.get result is reported
\* as missing, raises nothing, gets no trend.get, leaves its interface an entry
\* with a None slot, and the returned keys of the host are still fetched and
\* reduced (the state part in every state, the step part on every step)
C2_MissingKeyTolerated == []C2_MissingKeyState /\ [][C2_MissingKeyStep]_vars

C2_Witness ==
    /\ script = "cabral"
    /\ status = "reported"
    /\ \E m1, m2 \in MetaSet :
          /\ m1.ifc = m2.ifc
          /\ m1.key \notin found
          /\ m2.key \in found
          /\ by_if[m1.ifc][m1.dir] = NoSlot
          /\ by_if[m2.ifc][m2.dir] # NoSlot
    /\ \E m \in MetaSet :
          (\A x \in MetaSet : x.ifc = m.ifc => x.key \notin found) /\ m.ifc \in DOMAIN by_if

\* C3: after a host was processed without an API failure, a direction slot
\* holds a summary if and only if its key was returned by item.get and its
\* trend.get returned a bucket with num > 0; otherwise the slot is None and
\* the report prints the no-data line of that direction.
C3_SlotIffData ==
    HostProcessed =>
        \A m \in MetaSet :
            LET data == /\ m.key \in found
                        /\ m.key \in DOMAIN trendRet
                        /\ \E i \in 1 .. Len(trendRet[m.key]) : HasData(trendRet[m.key][i])
            IN /\ m.ifc \in DOMAIN by_if
               /\ (by_if[m.ifc][m.dir] # NoSlot) <=> data
               /\ (status = "reported") =>
                     /\ (~data) <=> Printed("no_data", m.ifc, m.dir)
                     /\ data <=> Printed("stats", m.ifc, m.dir)

C3_Witness ==
    /\ status = "reported"
    /\ script = "sr95"
    /\ \E m1, m2, m3 \in MetaSet :
          /\ m1.key \notin found /\ by_if[m1.ifc][m1.dir] = NoSlot
          /\ m2.key \in found /\ trendRet[m2.key] = << Bucket(<<0>>, 0, 0, 0) >>
          /\ by_if[m2.ifc][m2.dir] = NoSlot
          /\ m3.key \in found /\ by_if[m3.ifc][m3.dir] # NoSlot
          /\ Printed("no_data", m2.ifc, m2.dir)

RECURSIVE RefSumOver(_, _, _)
\* sum of field fld over the buckets of bs at the positions in D
RefSumOver(bs, fld, D) ==
    IF D = {} THEN 0
    ELSE LET i == CHOOSE x \in D : TRUE IN bs[i][fld] + RefSumOver(bs, fld, D \ {i})

\* C5: a stored direction summary is computed from the buckets with num > 0
\* only: media is the sum of their value_avg over their number, min their
\* smallest value_min, max their largest value_max, total_bytes the sum of
\* value_avg * 3600 over 8.  [{num:0}, {num:5, avg 100, min 80, max 120}]
\* gives media 100, min 80, max 120, total_bytes 45000.
C5_SummaryFromDataBuckets ==
    \A m \in MetaSet :
        (m.ifc \in DOMAIN by_if /\ by_if[m.ifc][m.dir] # NoSlot) =>
            LET sm == by_if[m.ifc][m.dir][1]
                bs == trendRet[m.key]
                D  == { i \in 1 .. Len(bs) : HasData(bs[i]) }
            IN /\ D # {}
               /\ RatEq(sm.media, Rat(RefSumOver(bs, "value_avg", D), Cardinality(D)))
               /\ \E i \in D : sm.min = bs[i].value_min
               /\ \A i \in D : sm.min <= bs[i].value_min
               /\ \E i \in D : sm.max = bs[i].value_max
               /\ \A i \in D : sm.max >= bs[i].value_max
               /\ RatEq(sm.total_bytes, Rat(RefSumOver(bs, "value_avg", D) * 3600, 8))
               /\ (bs = << Bucket(<<0>>, 0, 0, 0), Bucket(<<5>>, 100, 80, 120) >>) =>
                     /\ RatEq(sm.media, Rat(100, 1))
                     /\ sm.min = 80
                     /\ sm.max = 120
                     /\ RatEq(sm.total_bytes, Rat(45000, 1))

C5_Witness ==
    \E m1, m2 \in MetaSet :
        /\ m1.ifc \in DOMAIN by_if /\ by_if[m1.ifc][m1.dir] # NoSlot
        /\ trendRet[m1.key] = << Bucket(<<0>>, 0, 0, 0), Bucket(<<5>>, 100, 80, 120) >>
        /\ by_if[m1.ifc][m1.dir][1].min = 80
        /\ m2.ifc \in DOMAIN by_if /\ by_if[m2.ifc][m2.dir] # NoSlot
        /\ trendRet[m2.key] = << Bucket(<<2>>, 40, 10, 300), Bucket(<<5>>, 100, 80, 120) >>
        /\ by_if[m2.ifc][m2.dir][1].media = Rat(140, 2)

\* C8 (state part): the window exists before the first host is processed,
\* time_from < time_till in both modes, in rolling mode it is exactly 30
\* days long and ends at now, and every trend.get carries it.
C8_WindowState ==
    /\ (pc = "start") => (window = <<>> /\ visited = {} /\ calls = <<>> /\ hostIdx = 1)
    /\ (pc # "start") =>
          /\ window # <<>>
          /\ SecLt(window[1], window[2])
          /\ mode =>
                /\ SecDiff(window[2], window[1]) = 2592000
                /\ window[2] = [day |-> RefDaysFromCivil(now.year, now.month, now.day),
                                 sod |-> now.sod]
    /\ \A c \in TrendCalls : c.win # <<>> /\ c.win = window

\* C8 (step part): the window is computed once and never again
C8_WindowStep == (window # <<>>) => (window' = window)

\* C8: the time window is computed exactly once per run, before the first
\* host, every trend.get of the run carries it, time_from < time_till, and in
\* rolling mode it spans exactly 2592000 seconds ending at now (the state
\* part in every state, the step part on every step)
C8_OneWindowPerRun == []C8_WindowState /\ [][C8_WindowStep]_vars

C8_Witness ==
    /\ mode
    /\ Terminated
    /\ visited = 1 .. NumHosts
    /\ failures = {}
    /\ \E c1, c2 \in TrendCalls :
          /\ c1.host = NumHosts /\ c2.host = NumHosts
          /\ c1.arg # c2.arg
          /\ c1.win = window /\ c2.win = window
    /\ SecDiff(window[2], window[1]) = 2592000

\* ------------------------------------------------ claims: label matching

MatchDone == pc = "ret_match"

\* the same letter, whatever its case
RefCasePairs == { <<"P", "p">>, <<"E", "e">>, <<"T", "t">>, <<"X", "x">>, <<"L", "l">>, <<"O", "o">> }
RefSameLetter(c, d) == c = d \/ <<c, d>> \in RefCasePairs \/ <<d, c>> \in RefCasePairs

\* pattern p occurs in the text t, letter by letter and ignoring case
RefOccurs(p, t) ==
    \E s \in 1 .. Len(t) - Len(p) + 1 :
        \A k \in 1 .. Len(p) : RefSameLetter(p[k], t[s + k - 1])

\* the texts of an item taken individually: its name, every tag key, every
\* tag value
RefBlocks(name, tags) ==
    {name} \cup { tags[i].tag : i \in 1 .. Len(tags) } \cup { tags[i].value : i \in 1 .. Len(tags) }

\* C11: label matching selects an interface for pattern p if and only if p,
\* ignoring case, is a substring of its name (or, for match_patterns, of its
\* name, one tag key or one tag value taken individually); the result has one
\* entry per configured pattern; "peering" matches "Peering-Transit-1".
C11_MatchInsideOneBlock ==
    MatchDone =>
        /\ DOMAIN fout.by_name = SeqToSet(fin.patterns)
        /\ DOMAIN fout.by_tags = SeqToSet(fin.patterns)
        /\ \A p \in SeqToSet(fin.patterns) :
              /\ \A idx \in DOMAIN fin.names_all :
                    (idx \in fout.by_name[p]) <=> RefOccurs(p, fin.names_all[idx])
              /\ fout.by_name[p] \subseteq DOMAIN fin.names_all
              /\ fout.by_tags[p] <=> \E b \in RefBlocks(fin.name, fin.tags) : RefOccurs(p, b)
              /\ (p = PeeringPattern /\ fin.name = PeeringTransit1) => fout.by_tags[p]
              /\ (p = PeeringPattern /\ fin.names_all[1] = PeeringTransit1) => 1 \in fout.by_name[p]

\* what the code does instead: match_patterns looks for p in the blocks joined
\* by " | ", so a pattern holding separator characters can match text that
\* lies in no single block; a pattern without them matches inside one block
MatchJoinedText ==
    MatchDone =>
        /\ DOMAIN fout.by_name = SeqToSet(fin.patterns)
        /\ DOMAIN fout.by_tags = SeqToSet(fin.patterns)
        /\ \A p \in SeqToSet(fin.patterns) :
              /\ \A idx \in DOMAIN fin.names_all :
                    (idx \in fout.by_name[p]) <=> RefOccurs(p, fin.names_all[idx])
              /\ (\E b \in RefBlocks(fin.name, fin.tags) : RefOccurs(p, b)) => fout.by_tags[p]
              /\ (SeqToSet(p) \cap SeqToSet(Separator) = {}) =>
                    (fout.by_tags[p] <=> \E b \in RefBlocks(fin.name, fin.tags) : RefOccurs(p, b))
              /\ (fin.tags = <<>>) => (fout.by_tags[p] <=> RefOccurs(p, fin.name))
              /\ (p = PeeringPattern /\ fin.name = PeeringTransit1) => fout.by_tags[p]

\* --------------------------------------- claims: unmatched label patterns

\* sr95 has finished a host on which interface indices were discovered
Sr95HostDone ==
    /\ script = "sr95"
    /\ status \in {"reported", "no_match"}
    /\ DOMAIN lst.names_all # {}

AvailableLines == { i \in 1 .. Len(out) : out[i].kind = "available" }

\* C12: on a host with discovered indices, every configured pattern that
\* matches no index has the diagnostic listing of the discovered indices
\* printed (at most 30 entries), also when another pattern matches.
C12_UnmatchedPatternDiagnosed ==
    Sr95HostDone =>
        \A p \in SeqToSet(LABEL_PATTERNS) :
            (lst.match_map[p] = {}) =>
                /\ Printed("no_match", 0, "")
                /\ AvailableLines # {}
                /\ Cardinality(AvailableLines) <= SampleSize

\* what the code does instead: the diagnostic is printed exactly when no
\* pattern at all matches an index of the host; a pattern without a match is
\* left out of the report without a line when another pattern matches
DiagnosticOnlyWhenNothingMatches ==
    Sr95HostDone =>
        LET unmatched == { p \in SeqToSet(LABEL_PATTERNS) : lst.match_map[p] = {} }
        IN /\ Printed("no_match", 0, "") <=> (unmatched = SeqToSet(LABEL_PATTERNS))
           /\ Printed("no_match", 0, "") =>
                 /\ status = "no_match"
                 /\ { out[i].ifc : i \in AvailableLines } = DOMAIN lst.names_all
                 /\ Cardinality(AvailableLines) <= SampleSize
           /\ (status = "reported") =>
                 \A p \in SeqToSet(LABEL_PATTERNS) :
                     (p \in unmatched) <=>
                         ~ \E i \in 1 .. Len(out) : out[i].kind = "pattern" /\ out[i].what = p

\* ------------------------------------------------ claims: label test run

\* an API call of the current host has just failed
LabelFailed == script = "labels" /\ status \in {"failed", "diag_failed"}

\* C13: in zabbix-testar-labels.py a failed API call of a host (those of the
\* extra diagnostic included) has a message printed for the host, is followed
\* by no further call for that host, and every later host is still processed:
\* the run ends normally with every host attempted.
C13_FailurePrintedAndNextHost ==
    (script = "labels") =>
        /\ LabelFailed =>
              /\ Printed("error", hostIdx - 1, "")
              /\ pc \in {"host", "end"}
              /\ calls[Len(calls)].host = hostIdx - 1
              /\ hostIdx - 1 \in failures
        /\ pc # "aborted"
        /\ (pc = "end") => (visited = 1 .. NumHosts /\ hostIdx = NumHosts + 1)

\* what the code does instead: a failure of the extra diagnostic is
\* swallowed without a message (except Exception: pass); everything else of
\* the claim holds for every failure
LabelFailureContinues ==
    (script = "labels") =>
        /\ LabelFailed =>
              /\ (status = "failed") <=> Printed("error", hostIdx - 1, "")
              /\ (status = "diag_failed") =>
                    /\ Printed("no_items", hostIdx - 1, "")
                    /\ calls[Len(calls)].method \in {"host.get", "hostinterface.get"}
              /\ pc \in {"host", "end"}
              /\ calls[Len(calls)].host = hostIdx - 1
              /\ hostIdx - 1 \in failures
        /\ pc # "aborted"
        /\ (pc = "end") => (visited = 1 .. NumHosts /\ hostIdx = NumHosts + 1)

\* ------------------------------------------- claims: order of the calls

\* positions of the trend.get calls in the host's call history
TrendPositions == { i \in 1 .. Len(calls) : calls[i].method = "trend.get" }

\* C14 (state part): the calls of the host in hand all belong to that one
\* host, hosts are reached in configured order, the key-resolving item.get
\* precedes every trend.get of the host, a trend.get names a key that item.get
\* returned, no key is fetched twice (at most two calls per requested
\* interface), and no call occurs twice in the history (no retry).
C14_CallsState ==
    (script \in {"cabral", "sr95"}) =>
        /\ visited = 1 .. Cardinality(visited)
        /\ visited \subseteq 1 .. NumHosts
        /\ \A i \in 1 .. Len(calls) :
              /\ calls[i].host \in visited
              /\ calls[i].host = calls[1].host
              /\ calls[i].host \in {hostIdx - 1, hostIdx}
        /\ \A i, j \in 1 .. Len(calls) : i # j => calls[i] # calls[j]
        /\ \A i \in TrendPositions :
              /\ \E j \in 1 .. i - 1 :
                    calls[j].method = "item.get" /\ calls[j].arg = KeysNeeded(keys)
              /\ calls[i].arg[1] \in found
              /\ calls[i].arg[1] \in Requested
        /\ Cardinality(TrendPositions) <= Len(keys)
        /\ (script = "cabral") => Cardinality(TrendPositions) <= 2 * IfacesPerHost
        /\ (script = "sr95" /\ TrendPositions # {}) =>
              Cardinality(TrendPositions)
                  <= 2 * Cardinality(UNION { lst.match_map[p] : p \in DOMAIN lst.match_map })
        /\ (status \in {"aborted", "list_failed"}) => pc \in {"aborted", "host", "end"}

\* C14 (step part): a step issues at most one call, appended to the history
\* of the host in hand; hosts advance one by one; after a failure the run
\* moves on or ends, and an ended run issues nothing.
C14_CallsStep ==
    /\ hostIdx' \in {hostIdx, hostIdx + 1}
    /\ \/ calls' = calls
       \/ calls' = <<>> /\ pc = "host"
       \/ /\ Len(calls') = Len(calls) + 1
          /\ SubSeq(calls', 1, Len(calls)) = calls
          /\ calls'[Len(calls')].host = hostIdx
          /\ pc \notin {"host", "end", "aborted", "start", "report"}
    /\ (failures' # failures) => pc' \in {"aborted", "host"}
    /\ (pc \in {"aborted", "end"}) => UNCHANGED vars

\* C14: the API calls of a run form one sequential trace: hosts in configured
\* order, item.get before the trend.get calls of a host, trend.get only for
\* returned keys and at most once per key (at most 2n for n interfaces), no
\* call re-issued after a failure
C14_SequentialCalls == []C14_CallsState /\ [][C14_CallsStep]_vars

C14_Witness ==
    /\ script = "cabral"
    /\ pc = "end"
    /\ failures = {}
    /\ visited = 1 .. NumHosts
    /\ Cardinality(TrendPositions) = 2 * IfacesPerHost
    /\ calls[1].method = "item.get"
    /\ calls[1].host = NumHosts

\* ---------------------------------------- claims: order of the summary

SummaryDone == pc = "ret_summary"

\* the buckets of the reply that hold samples
RefData(bs) == { bs[i] : i \in { j \in 1 .. Len(bs) : HasData(bs[j]) } }

RefOrdered(bs) == \A b \in RefData(bs) : b.value_min <= b.value_avg /\ b.value_avg <= b.value_max
RefNonNegative(bs) ==
    \A b \in RefData(bs) : b.value_min >= 0 /\ b.value_avg >= 0 /\ b.value_max >= 0

\* C15: when every bucket with num > 0 has value_min <= value_avg <=
\* value_max, a stored summary has min <= media <= max and min <= p95 <= max,
\* and p95 lies between the smallest and the largest value_avg of those
\* buckets; with non-negative bucket values media, min, max, p95 and
\* total_bytes are all non-negative.
C15_SummaryOrdered ==
    (SummaryDone /\ fout # NoSlot) =>
        LET sm == fout[1]
            lo == Rat(sm.min, 1)
            hi == Rat(sm.max, 1)
            zero == Rat(0, 1)
        IN /\ RefData(fin) # {}
           /\ RefOrdered(fin) =>
                 /\ RatLe(lo, sm.media) /\ RatLe(sm.media, hi)
                 /\ RatLe(lo, sm.p95) /\ RatLe(sm.p95, hi)
           /\ \E b \in RefData(fin) : RatLe(Rat(b.value_avg, 1), sm.p95)
           /\ \E b \in RefData(fin) : RatLe(sm.p95, Rat(b.value_avg, 1))
           /\ RefNonNegative(fin) =>
                 /\ RatLe(zero, sm.media) /\ RatLe(zero, lo) /\ RatLe(zero, hi)
                 /\ RatLe(zero, sm.p95) /\ RatLe(zero, sm.total_bytes)

C15_Witness ==
    /\ SummaryDone
    /\ fout # NoSlot
    /\ Cardinality(RefData(fin)) = 2
    /\ \E i \in 1 .. Len(fin) : ~HasData(fin[i])
    /\ RefOrdered(fin)
    /\ RefNonNegative(fin)
    /\ RatLt(Rat(fout[1].min, 1), fout[1].media)
    /\ RatLt(fout[1].media, fout[1].p95)
    /\ RatLt(fout[1].p95, Rat(fout[1].max, 1))

====
